---------------------------- MODULE Spec2Model ----------------------------
(***************************************************************************)
(* Model of the lawkit Python binding (src/lib.rs): the value converter    *)
(* (python_to_value / value_to_python), the result marshaller              *)
(* (lawkit_result_to_python) and the entry point law_py, which builds the  *)
(* options from the keyword arguments, calls the engine once and marshals  *)
(* its results.                                                            *)
(*                                                                         *)
(* Numbers.  Python integers are unbounded and the conversions depend on   *)
(* the i64, u64 and f64 ranges, so a number is kept exactly as a dyadic    *)
(* rational m * 2^e, written [m |-> m, e |-> e] with m odd (or m = 0 and   *)
(* e = 0).  Every mantissa used fits the 53 bits of an f64, so int -> f64  *)
(* is exact whenever it does not overflow.                                 *)
(*                                                                         *)
(* Host (Python) values are records tagged by k:                           *)
(*   none | bool(b) | int(n) | float(c, n) | str(s) | list(items) |        *)
(*   dict(entries: sequence of <<key, value>>, insertion order) |          *)
(*   other(repr, str_ok): any other object, with the outcome of str(obj).  *)
(* Canonical (serde_json) values are records tagged by k:                  *)
(*   Null | Bool(b) | Number(r, n) with r the serde_json representation    *)
(*   PosInt / NegInt / Float | String(s) | Array(a) | Object(o).           *)
(***************************************************************************)
EXTENDS Integers, Sequences, FiniteSets, TLC

VARIABLES
    \* ---- the value converter, exercised on its own
    cpc,              \* position of the conversion run
    preserve_order,   \* serde_json built with an insertion-ordered Map
    obj,              \* the host value given to python_to_value
    value,            \* PyResult<Value> of the first conversion
    back,             \* the host value value_to_python built from it
    value2,           \* PyResult<Value> of converting `back` again
    \* ---- one call of law_py
    scn,              \* which bounded family of inputs the call draws from
    pc,               \* position inside law_py
    subcommand,       \* argument
    data_or_config,   \* argument (host value)
    kwargs,           \* argument: sequence of <<key, host value>>, as iterated
    data_value,       \* PyResult<Value> of python_to_value(data_or_config)
    options,          \* LawkitOptions being built
    lawkit_options,   \* LawkitSpecificOptions being built
    has_lawkit_options,
    kw_i,             \* number of kwargs entries consumed
    engine_calls,     \* how many times law(...) of lawkit_core was invoked
    engine_arg,       \* what the engine was invoked with
    results,          \* Vec<LawkitResult> the engine returned
    res_i,            \* number of results marshalled
    py_list,          \* the list under construction
    ret               \* what the call returned to Python

conv_vars == <<cpc, preserve_order, obj, value, back, value2>>

law_vars == <<scn, pc, subcommand, data_or_config, kwargs, data_value, options,
              lawkit_options, has_lawkit_options, kw_i, engine_calls,
              engine_arg, results, res_i, py_list, ret>>

vars == <<conv_vars, law_vars>>

---------------------------------------------------------------------------
(* Bounds of the model *)

\* a host value given to the converter has at most this many nodes
MaxNodes == 3

\* a call carries at most this many keyword arguments
MaxKwargs == 2

\* the engine returns at most this many results
MaxResults == 2

---------------------------------------------------------------------------
(* Numeric ranges *)

\* i64: values in -2^63 .. 2^63 - 1
I64_BITS == 63

\* usize on the 64-bit targets the extension is built for
USIZE_BITS == 64

\* f64: finite magnitudes are below 2^1024
F64_MAX_EXP == 1024

Dy(m, e) == [m |-> m, e |-> e]

Abs(x) == IF x < 0 THEN -x ELSE x

RECURSIVE BitLen(_)
BitLen(m) == IF m = 0 THEN 0 ELSE 1 + BitLen(m \div 2)

\* -2^63 <= n <= 2^63 - 1
FitsI64(n) ==
    \/ n.m = 0
    \/ BitLen(Abs(n.m)) + n.e <= I64_BITS
    \/ n.m = -1 /\ n.e = I64_BITS

\* 0 <= n <= 2^64 - 1
FitsUsize(n) ==
    \/ n.m = 0
    \/ n.m > 0 /\ BitLen(n.m) + n.e <= USIZE_BITS

\* |n| < 2^1024, the int -> double conversion does not overflow
FitsF64(n) == n.m = 0 \/ BitLen(Abs(n.m)) + n.e <= F64_MAX_EXP

---------------------------------------------------------------------------
(* Host values *)

PyNone == [k |-> "none"]
PyBool(b) == [k |-> "bool", b |-> b]
PyInt(n) == [k |-> "int", n |-> n]
PyFloat(c, n) == [k |-> "float", c |-> c, n |-> n]
PyStr(s) == [k |-> "str", s |-> s]
PyList(items) == [k |-> "list", items |-> items]
PyDict(entries) == [k |-> "dict", entries |-> entries]
PyOther(repr, str_ok) == [k |-> "other", repr |-> repr, str_ok |-> str_ok]

PyFinite(n) == PyFloat("fin", n)
PyNaN == PyFloat("nan", Dy(0, 0))
PyInf == PyFloat("inf", Dy(0, 0))

(* PyResult *)
Ok(v) == [ok |-> TRUE, val |-> v]
Err(kind, msg) == [ok |-> FALSE, kind |-> kind, msg |-> msg]

(* Option<T>: <<>> is None, <<v>> is Some(v) *)
None == <<>>
Some(v) == <<v>>

\* obj.extract::<bool>(): only a Python bool
ExtractBool(o) ==
    IF o.k = "bool" THEN Ok(o.b) ELSE Err("TypeError", "not a bool")

\* the integer an object yields through __index__ (bool is a subclass of int)
IndexOf(o) == IF o.k = "bool" THEN (IF o.b THEN Dy(1, 0) ELSE Dy(0, 0)) ELSE o.n

\* obj.extract::<i64>(): __index__, then the range check
ExtractI64(o) ==
    IF o.k \notin {"int", "bool"} THEN Err("TypeError", "not an integer")
    ELSE IF FitsI64(IndexOf(o)) THEN Ok(IndexOf(o))
    ELSE Err("OverflowError", "int too big to convert")

\* obj.extract::<usize>(): __index__, then the range check
ExtractUsize(o) ==
    IF o.k \notin {"int", "bool"} THEN Err("TypeError", "not an integer")
    ELSE IF FitsUsize(IndexOf(o)) THEN Ok(IndexOf(o))
    ELSE Err("OverflowError", "out of range")

\* obj.extract::<f64>(): a float as it is, an int or bool through __float__
ExtractF64(o) ==
    IF o.k = "float" THEN Ok([c |-> o.c, n |-> o.n])
    ELSE IF o.k \in {"int", "bool"}
         THEN IF FitsF64(IndexOf(o))
              THEN Ok([c |-> "fin", n |-> IndexOf(o)])
              ELSE Err("OverflowError", "int too large to convert to float")
    ELSE Err("TypeError", "must be real number")

\* obj.extract::<String>(): only a Python str
ExtractString(o) ==
    IF o.k = "str" THEN Ok(o.s) ELSE Err("TypeError", "not a str")

\* the decimal digits of the integers the model uses outside the f64 range
Decimal(n) ==
    IF n = Dy(1, 1024) THEN "17976931348623159...137216" ELSE "<digits>"

\* obj.str()?.extract::<String>()
StrOf(o) ==
    CASE o.k = "other" ->
           IF o.str_ok THEN Ok(o.repr) ELSE Err("RuntimeError", "__str__ raised")
      [] o.k = "int" -> Ok(Decimal(o.n))
      [] OTHER -> Ok("<str>")

---------------------------------------------------------------------------
(* Canonical values (serde_json::Value) *)

Null == [k |-> "Null"]
Bool(b) == [k |-> "Bool", b |-> b]
Number(r, n) == [k |-> "Number", r |-> r, n |-> n]
String(s) == [k |-> "String", s |-> s]
Array(a) == [k |-> "Array", a |-> a]
Object(o) == [k |-> "Object", o |-> o]

\* serde_json::Number::from(i: i64)
NumberFromI64(n) == Number(IF n.m >= 0 THEN "PosInt" ELSE "NegInt", n)

\* serde_json::Number::from_f64(f): None unless f is finite
NumberFromF64(f) ==
    IF f.c = "fin" THEN Some(Number("Float", f.n)) ELSE None

\* Number::as_i64
AsI64(v) ==
    CASE v.r = "PosInt" -> IF FitsI64(v.n) THEN Some(v.n) ELSE None
      [] v.r = "NegInt" -> Some(v.n)
      [] OTHER -> None

\* Number::as_f64: every representation converts
AsF64(v) == Some([c |-> "fin", n |-> v.n])

\* the order of the keys of a sorted Map
KeyOrder == <<"a", "b">>

KeyRank(s) == CHOOSE i \in 1..Len(KeyOrder) : KeyOrder[i] = s

\* Map::insert(key, v): replaces the value of a key already present; a new key
\* goes to its sorted place, or to the end when the Map preserves insertion order
MapInsert(map, key, v, po) ==
    IF \E i \in 1..Len(map) : map[i][1] = key
    THEN [i \in 1..Len(map) |-> IF map[i][1] = key THEN <<key, v>> ELSE map[i]]
    ELSE IF po THEN Append(map, <<key, v>>)
    ELSE LET before == SelectSeq(map, LAMBDA e : KeyRank(e[1]) < KeyRank(key))
             after == SelectSeq(map, LAMBDA e : KeyRank(e[1]) > KeyRank(key))
         IN  before \o <<<<key, v>>>> \o after

\* Value == Value: Maps are equal when they hold the same entries
RECURSIVE ValueEq(_, _)
ValueEq(x, y) ==
    IF x.k # y.k THEN FALSE
    ELSE CASE x.k = "Array" ->
                /\ Len(x.a) = Len(y.a)
                /\ \A i \in 1..Len(x.a) : ValueEq(x.a[i], y.a[i])
           [] x.k = "Object" ->
                /\ Len(x.o) = Len(y.o)
                /\ \A i \in 1..Len(x.o) : \E j \in 1..Len(y.o) :
                      x.o[i][1] = y.o[j][1] /\ ValueEq(x.o[i][2], y.o[j][2])
           [] OTHER -> x = y

---------------------------------------------------------------------------
(* python_to_value *)

\* the branch of the if / else-if chain the object takes: the first
\* predicate that matches
\* the chain with the integer test moved before the boolean test
FirstMatch_IntFirst(o) ==
    IF o.k = "none" THEN "none"
    ELSE IF ExtractI64(o).ok THEN "i64"
    ELSE IF ExtractBool(o).ok THEN "bool"
    ELSE IF ExtractF64(o).ok THEN "f64"
    ELSE IF ExtractString(o).ok THEN "string"
    ELSE IF o.k = "list" THEN "list"
    ELSE IF o.k = "dict" THEN "dict"
    ELSE "fallback"

FirstMatch(o) ==
    IF o.k = "none" THEN "none"
    ELSE IF ExtractBool(o).ok THEN "bool"
    ELSE IF ExtractI64(o).ok THEN "i64"
    ELSE IF ExtractF64(o).ok THEN "f64"
    ELSE IF ExtractString(o).ok THEN "string"
    ELSE IF o.k = "list" THEN "list"
    ELSE IF o.k = "dict" THEN "dict"
    ELSE "fallback"

\* the f64 branch: a Number when finite, Null otherwise
FloatToValue(f) ==
    IF NumberFromF64(f) # None THEN NumberFromF64(f)[1] ELSE Null

RECURSIVE python_to_value(_, _)
RECURSIVE ListToVec(_, _, _)
RECURSIVE DictToMap(_, _, _)

\* for item in list.iter() { vec.push(python_to_value(item)?) }
ListToVec(items, vec, po) ==
    IF items = <<>> THEN Ok(vec)
    ELSE LET r == python_to_value(Head(items), po)
         IN  IF r.ok THEN ListToVec(Tail(items), Append(vec, r.val), po) ELSE r

\* for (key, value) in dict.iter() { map.insert(key.extract()?, python_to_value(value)?) }
DictToMap(items, map, po) ==
    IF items = <<>> THEN Ok(map)
    ELSE LET key == ExtractString(Head(items)[1])
         IN  IF ~key.ok THEN key
             ELSE LET r == python_to_value(Head(items)[2], po)
                  IN  IF r.ok
                      THEN DictToMap(Tail(items),
                                     MapInsert(map, key.val, r.val, po), po)
                      ELSE r

python_to_value(o, po) ==
    LET branch == FirstMatch(o)
    IN  CASE branch = "none" -> Ok(Null)
          [] branch = "bool" -> Ok(Bool(ExtractBool(o).val))
          [] branch = "i64" -> Ok(NumberFromI64(ExtractI64(o).val))
          [] branch = "f64" -> Ok(FloatToValue(ExtractF64(o).val))
          [] branch = "string" -> Ok(String(ExtractString(o).val))
          [] branch = "list" ->
               LET r == ListToVec(o.items, <<>>, po)
               IN  IF r.ok THEN Ok(Array(r.val)) ELSE r
          [] branch = "dict" ->
               LET r == DictToMap(o.entries, <<>>, po)
               IN  IF r.ok THEN Ok(Object(r.val)) ELSE r
          [] OTHER ->
               LET s == StrOf(o)
               IN  IF s.ok THEN Ok(String(s.val)) ELSE s

---------------------------------------------------------------------------
(* value_to_python *)

\* the Value::Number arm, with as_i64 taken for every integral number
NumberToPython_Integral(v) ==
    IF v.n.e >= 0 /\ FitsI64(v.n) THEN PyInt(v.n)
    ELSE PyFinite(v.n)

\* the Value::Number arm: an int when as_i64 answers, else a float
NumberToPython(v) ==
    IF AsI64(v) # None THEN PyInt(AsI64(v)[1])
    ELSE IF AsF64(v) # None THEN PyFloat(AsF64(v)[1].c, AsF64(v)[1].n)
    ELSE PyNone

RECURSIVE value_to_python(_)
value_to_python(v) ==
    CASE v.k = "Null" -> PyNone
      [] v.k = "Bool" -> PyBool(v.b)
      [] v.k = "Number" -> NumberToPython(v)
      [] v.k = "String" -> PyStr(v.s)
      [] v.k = "Array" ->
           PyList([i \in 1..Len(v.a) |-> value_to_python(v.a[i])])
      [] v.k = "Object" ->
           PyDict([i \in 1..Len(v.o) |->
                      <<PyStr(v.o[i][1]), value_to_python(v.o[i][2])>>])

---------------------------------------------------------------------------
(* The converter run on its own: python_to_value, value_to_python, and     *)
(* python_to_value again                                                   *)

Atoms ==
    { PyNone, PyBool(TRUE), PyBool(FALSE),
      PyInt(Dy(1, 0)), PyInt(Dy(-1, 63)), PyInt(Dy(1, 63)), PyInt(Dy(1, 1024)),
      PyFinite(Dy(1, 0)), PyFinite(Dy(1, -1)), PyNaN, PyInf,
      PyStr("s"), PyOther("<object>", TRUE), PyOther("<broken>", FALSE) }

\* the keys a host dict may carry: two strings and one key that is no string
DictKeys == { PyStr("a"), PyStr("b"), PyInt(Dy(1, 0)) }

\* the values of one node
Leaves == Atoms \cup { PyList(<<>>), PyDict(<<>>) }

\* the keys of the entries of a dict
KeysOf(entries) == { entries[i][1] : i \in 1..Len(entries) }

\* a host value grown by one node: a leaf appended to the list or dict that
\* ends the value, or to the one that ends its last item, and so on down.
\* Every finite value is reached from a leaf this way.
RECURSIVE Extend(_)
Extend(o) ==
    LET n == CASE o.k = "list" -> Len(o.items)
               [] o.k = "dict" -> Len(o.entries)
               [] OTHER -> 0
    IN  CASE o.k = "list" ->
               { PyList(Append(o.items, l)) : l \in Leaves }
               \cup (IF n = 0 THEN {}
                     ELSE { PyList([o.items EXCEPT ![n] = x])
                              : x \in Extend(o.items[n]) })
          [] o.k = "dict" ->
               { PyDict(Append(o.entries, <<key, l>>))
                   : key \in DictKeys \ KeysOf(o.entries), l \in Leaves }
               \cup (IF n = 0 THEN {}
                     ELSE { PyDict([o.entries EXCEPT
                                      ![n] = <<o.entries[n][1], x>>])
                              : x \in Extend(o.entries[n][2]) })
          [] OTHER -> {}

\* the number of nodes of a host value
RECURSIVE Size(_)
RECURSIVE SizeOfAll(_)
SizeOfAll(vals) ==
    IF vals = <<>> THEN 0 ELSE Size(Head(vals)) + SizeOfAll(Tail(vals))

Size(o) ==
    CASE o.k = "list" -> 1 + SizeOfAll(o.items)
      [] o.k = "dict" ->
           1 + SizeOfAll([i \in 1..Len(o.entries) |-> o.entries[i][2]])
      [] OTHER -> 1

Pending == Err("pending", "not run")

ConvInit ==
    /\ cpc = "start"
    /\ preserve_order \in BOOLEAN
    /\ obj \in Leaves
    /\ value = Pending
    /\ back = PyNone
    /\ value2 = Pending
    /\ scn = "none"
    /\ pc = "idle"
    /\ subcommand = ""
    /\ data_or_config = PyNone
    /\ kwargs = <<>>
    /\ data_value = Pending
    /\ options = <<>>
    /\ lawkit_options = <<>>
    /\ has_lawkit_options = FALSE
    /\ kw_i = 0
    /\ engine_calls = 0
    /\ engine_arg = <<>>
    /\ results = <<>>
    /\ res_i = 0
    /\ py_list = <<>>
    /\ ret = Pending

\* the caller builds the argument, one node at a time
CallerBuilds ==
    /\ cpc = "start"
    /\ Size(obj) < MaxNodes
    /\ \E x \in Extend(obj) : obj' = x
    /\ UNCHANGED <<cpc, preserve_order, value, back, value2, law_vars>>

ToCanonical ==
    /\ cpc = "start"
    /\ value' = python_to_value(obj, preserve_order)
    /\ cpc' = "converted"
    /\ UNCHANGED <<preserve_order, obj, back, value2, law_vars>>

ToHost ==
    /\ cpc = "converted"
    /\ value.ok
    /\ back' = value_to_python(value.val)
    /\ cpc' = "back"
    /\ UNCHANGED <<preserve_order, obj, value, value2, law_vars>>

ToCanonicalAgain ==
    /\ cpc = "back"
    /\ value2' = python_to_value(back, preserve_order)
    /\ cpc' = "done"
    /\ UNCHANGED <<preserve_order, obj, value, back, law_vars>>

ConvNext == CallerBuilds \/ ToCanonical \/ ToHost \/ ToCanonicalAgain

SpecConv == ConvInit /\ [][ConvNext]_vars

---------------------------------------------------------------------------
(* Options: LawkitOptions and LawkitSpecificOptions, all fields unset *)

DefaultOptions ==
    [ ignore_keys_regex |-> None, path_filter |-> None, output_format |-> None,
      show_details |-> None, show_recommendations |-> None,
      use_memory_optimization |-> None, batch_size |-> None,
      lawkit_options |-> None ]

DefaultSpecificOptions ==
    [ risk_threshold |-> None, confidence_level |-> None,
      analysis_threshold |-> None, significance_level |-> None,
      min_sample_size |-> None, enable_outlier_detection |-> None,
      enable_japanese_numerals |-> None,
      enable_international_numerals |-> None,
      enable_parallel_processing |-> None, memory_limit_mb |-> None ]

GenericKeys ==
    { "ignore_keys_regex", "path_filter", "output_format", "show_details",
      "show_recommendations", "use_memory_optimization", "batch_size" }

SpecificKeys ==
    { "risk_threshold", "confidence_level", "analysis_threshold",
      "significance_level", "min_sample_size", "enable_outlier_detection",
      "enable_japanese_numerals", "enable_international_numerals",
      "enable_parallel_processing", "memory_limit_mb" }

RecognizedKeys == GenericKeys \cup SpecificKeys

\* regex::Regex::new(pattern): the patterns of the model that compile
RegexNew(pattern) ==
    IF pattern \in { "^id$", "x" } THEN Ok([regex |-> pattern])
    ELSE Err("regex::Error", "unclosed group")

\* lawkit_core::OutputFormat::parse_format(s): the identifiers the engine knows
ParseFormat(s) ==
    IF s = "json" THEN Ok("Json") ELSE Err("anyhow::Error", "Invalid format")

\* the locals of law_py while the kwargs are consumed; err is the PyErr the
\* `?` operator returns with, if any
BuildState(o, lo, has, err) ==
    [options |-> o, lawkit_options |-> lo, has_lawkit_options |-> has,
     err |-> err]

Raise(st, kind, msg) == [st EXCEPT !.err = Some(Err(kind, msg))]

(* The match arms, one per key *)

\* the arm with a pattern that does not compile skipped instead of raised
Arm_ignore_keys_regex_Lenient(st, v) ==
    IF ExtractString(v).ok /\ RegexNew(ExtractString(v).val).ok
    THEN [st EXCEPT !.options.ignore_keys_regex =
                        Some(RegexNew(ExtractString(v).val).val)]
    ELSE st

Arm_ignore_keys_regex(st, v) ==
    IF ExtractString(v).ok
    THEN LET re == RegexNew(ExtractString(v).val)
         IN  IF re.ok
             THEN [st EXCEPT !.options.ignore_keys_regex = Some(re.val)]
             ELSE Raise(st, "ValueError", "Invalid regex: " \o re.msg)
    ELSE st

Arm_path_filter(st, v) ==
    IF ExtractString(v).ok
    THEN [st EXCEPT !.options.path_filter = Some(ExtractString(v).val)]
    ELSE st

Arm_output_format(st, v) ==
    IF ExtractString(v).ok
    THEN LET format == ParseFormat(ExtractString(v).val)
         IN  IF format.ok
             THEN [st EXCEPT !.options.output_format = Some(format.val)]
             ELSE Raise(st, "ValueError", "Invalid format: " \o format.msg)
    ELSE st

\* the arm with an integer taken by its truth value
Arm_show_details_Truthy(st, v) ==
    IF ExtractBool(v).ok
    THEN [st EXCEPT !.options.show_details = Some(ExtractBool(v).val)]
    ELSE IF ExtractI64(v).ok
    THEN [st EXCEPT !.options.show_details = Some(ExtractI64(v).val.m # 0)]
    ELSE st

Arm_show_details(st, v) ==
    IF ExtractBool(v).ok
    THEN [st EXCEPT !.options.show_details = Some(ExtractBool(v).val)]
    ELSE st

Arm_show_recommendations(st, v) ==
    IF ExtractBool(v).ok
    THEN [st EXCEPT !.options.show_recommendations = Some(ExtractBool(v).val)]
    ELSE st

Arm_use_memory_optimization(st, v) ==
    IF ExtractBool(v).ok
    THEN [st EXCEPT !.options.use_memory_optimization =
                        Some(ExtractBool(v).val)]
    ELSE st

\* the arm with a failed extraction raised instead of skipped
Arm_batch_size_Strict(st, v) ==
    IF ExtractUsize(v).ok
    THEN [st EXCEPT !.options.batch_size = Some(ExtractUsize(v).val)]
    ELSE Raise(st, "ValueError", "Invalid batch_size")

Arm_batch_size(st, v) ==
    IF ExtractUsize(v).ok
    THEN [st EXCEPT !.options.batch_size = Some(ExtractUsize(v).val)]
    ELSE st

\* the arm with the flag set on the match, whether the value extracts or not
Arm_risk_threshold_FlagAlways(st, v) ==
    IF ExtractString(v).ok
    THEN [st EXCEPT !.lawkit_options.risk_threshold =
                        Some(ExtractString(v).val),
                    !.has_lawkit_options = TRUE]
    ELSE [st EXCEPT !.has_lawkit_options = TRUE]

Arm_risk_threshold(st, v) ==
    IF ExtractString(v).ok
    THEN [st EXCEPT !.lawkit_options.risk_threshold =
                        Some(ExtractString(v).val),
                    !.has_lawkit_options = TRUE]
    ELSE st

Arm_confidence_level(st, v) ==
    IF ExtractF64(v).ok
    THEN [st EXCEPT !.lawkit_options.confidence_level = Some(ExtractF64(v).val),
                    !.has_lawkit_options = TRUE]
    ELSE st

\* the arm with the value stored in the field of confidence_level
Arm_analysis_threshold_WrongField(st, v) ==
    IF ExtractF64(v).ok
    THEN [st EXCEPT !.lawkit_options.confidence_level = Some(ExtractF64(v).val),
                    !.has_lawkit_options = TRUE]
    ELSE st

Arm_analysis_threshold(st, v) ==
    IF ExtractF64(v).ok
    THEN [st EXCEPT !.lawkit_options.analysis_threshold =
                        Some(ExtractF64(v).val),
                    !.has_lawkit_options = TRUE]
    ELSE st

Arm_significance_level(st, v) ==
    IF ExtractF64(v).ok
    THEN [st EXCEPT !.lawkit_options.significance_level =
                        Some(ExtractF64(v).val),
                    !.has_lawkit_options = TRUE]
    ELSE st

Arm_min_sample_size(st, v) ==
    IF ExtractUsize(v).ok
    THEN [st EXCEPT !.lawkit_options.min_sample_size =
                        Some(ExtractUsize(v).val),
                    !.has_lawkit_options = TRUE]
    ELSE st

Arm_enable_outlier_detection(st, v) ==
    IF ExtractBool(v).ok
    THEN [st EXCEPT !.lawkit_options.enable_outlier_detection =
                        Some(ExtractBool(v).val),
                    !.has_lawkit_options = TRUE]
    ELSE st

Arm_enable_japanese_numerals(st, v) ==
    IF ExtractBool(v).ok
    THEN [st EXCEPT !.lawkit_options.enable_japanese_numerals =
                        Some(ExtractBool(v).val),
                    !.has_lawkit_options = TRUE]
    ELSE st

Arm_enable_international_numerals(st, v) ==
    IF ExtractBool(v).ok
    THEN [st EXCEPT !.lawkit_options.enable_international_numerals =
                        Some(ExtractBool(v).val),
                    !.has_lawkit_options = TRUE]
    ELSE st

Arm_enable_parallel_processing(st, v) ==
    IF ExtractBool(v).ok
    THEN [st EXCEPT !.lawkit_options.enable_parallel_processing =
                        Some(ExtractBool(v).val),
                    !.has_lawkit_options = TRUE]
    ELSE st

Arm_memory_limit_mb(st, v) ==
    IF ExtractUsize(v).ok
    THEN [st EXCEPT !.lawkit_options.memory_limit_mb =
                        Some(ExtractUsize(v).val),
                    !.has_lawkit_options = TRUE]
    ELSE st

\* the default arm with an unknown option rejected
Arm_unknown_Reject(st, v) == Raise(st, "TypeError", "unexpected keyword argument")

\* `_ => {}`: an unknown option is ignored
Arm_unknown(st, v) == st

\* match key_str.as_str() { ... }
MatchKey(st, key, v) ==
    CASE key = "ignore_keys_regex" -> Arm_ignore_keys_regex(st, v)
      [] key = "path_filter" -> Arm_path_filter(st, v)
      [] key = "output_format" -> Arm_output_format(st, v)
      [] key = "show_details" -> Arm_show_details(st, v)
      [] key = "show_recommendations" -> Arm_show_recommendations(st, v)
      [] key = "use_memory_optimization" -> Arm_use_memory_optimization(st, v)
      [] key = "batch_size" -> Arm_batch_size(st, v)
      [] key = "risk_threshold" -> Arm_risk_threshold(st, v)
      [] key = "confidence_level" -> Arm_confidence_level(st, v)
      [] key = "analysis_threshold" -> Arm_analysis_threshold(st, v)
      [] key = "significance_level" -> Arm_significance_level(st, v)
      [] key = "min_sample_size" -> Arm_min_sample_size(st, v)
      [] key = "enable_outlier_detection" -> Arm_enable_outlier_detection(st, v)
      [] key = "enable_japanese_numerals" -> Arm_enable_japanese_numerals(st, v)
      [] key = "enable_international_numerals" ->
           Arm_enable_international_numerals(st, v)
      [] key = "enable_parallel_processing" ->
           Arm_enable_parallel_processing(st, v)
      [] key = "memory_limit_mb" -> Arm_memory_limit_mb(st, v)
      [] OTHER -> Arm_unknown(st, v)

\* if has_lawkit_options { options.lawkit_options = Some(lawkit_options) }
Attach(o, lo, has) ==
    IF has THEN [o EXCEPT !.lawkit_options = Some(lo)] ELSE o

\* the whole of the kwargs loop and the attachment, for a given iteration
\* order: the error the loop returns with, or the merged options
RECURSIVE ConsumeKwargs(_, _)
ConsumeKwargs(kw, st) ==
    IF kw = <<>> THEN st
    ELSE LET nxt == MatchKey(st, Head(kw)[1], Head(kw)[2])
         IN  IF nxt.err # None THEN nxt ELSE ConsumeKwargs(Tail(kw), nxt)

BuildOptions(kw) ==
    LET st == ConsumeKwargs(kw, BuildState(DefaultOptions,
                                           DefaultSpecificOptions, FALSE, None))
    IN  IF st.err # None THEN st.err[1]
        ELSE Ok(Attach(st.options, st.lawkit_options, st.has_lawkit_options))

---------------------------------------------------------------------------
(* lawkit_result_to_python *)

(* Values of the engine's result structs *)
RF64(n) == [t |-> "f64", n |-> n]
RUsize(n) == [t |-> "usize", n |-> n]
RString(x) == [t |-> "String", s |-> x]
RBool(b) == [t |-> "bool", b |-> b]
RVec(v) == [t |-> "Vec", v |-> v]
RMap(m) == [t |-> "Map", m |-> m]

\* ToPyObject / IntoPy of a field
RECURSIVE ToObject(_)
ToObject(x) ==
    CASE x.t = "f64" -> PyFinite(x.n)
      [] x.t = "usize" -> PyInt(x.n)
      [] x.t = "String" -> PyStr(x.s)
      [] x.t = "bool" -> PyBool(x.b)
      [] x.t = "Vec" -> PyList([i \in 1..Len(x.v) |-> ToObject(x.v[i])])
      [] x.t = "Map" ->
           PyDict([i \in 1..Len(x.m) |->
                      <<PyStr(x.m[i][1]), ToObject(x.m[i][2])>>])

\* dict.set_item(key, v): a key already present keeps its place
SetItem(items, key, v) ==
    IF \E i \in 1..Len(items) : items[i][1] = PyStr(key)
    THEN [i \in 1..Len(items) |->
             IF items[i][1] = PyStr(key) THEN <<PyStr(key), v>> ELSE items[i]]
    ELSE Append(items, <<PyStr(key), v>>)

RECURSIVE SetItems(_, _)
SetItems(items, kvs) ==
    IF kvs = <<>> THEN items
    ELSE SetItems(SetItem(items, Head(kvs)[1], Head(kvs)[2]), Tail(kvs))

(* The match arms: the set_item calls of each variant, in order *)

Items_BenfordAnalysis(path, data) ==
    << <<"type", PyStr("BenfordAnalysis")>>,
       <<"path", PyStr(path)>>,
       <<"observed_distribution", ToObject(data.observed_distribution)>>,
       <<"expected_distribution", ToObject(data.expected_distribution)>>,
       <<"chi_square", ToObject(data.chi_square)>>,
       <<"p_value", ToObject(data.p_value)>>,
       <<"mad", ToObject(data.mad)>>,
       <<"risk_level", ToObject(data.risk_level)>>,
       <<"total_numbers", ToObject(data.total_numbers)>>,
       <<"analysis_summary", ToObject(data.analysis_summary)>> >>

Items_ParetoAnalysis(path, data) ==
    << <<"type", PyStr("ParetoAnalysis")>>,
       <<"path", PyStr(path)>>,
       <<"top_20_percent_contribution",
         ToObject(data.top_20_percent_contribution)>>,
       <<"pareto_ratio", ToObject(data.pareto_ratio)>>,
       <<"concentration_index", ToObject(data.concentration_index)>>,
       <<"risk_level", ToObject(data.risk_level)>>,
       <<"total_items", ToObject(data.total_items)>>,
       <<"analysis_summary", ToObject(data.analysis_summary)>> >>

Items_ZipfAnalysis(path, data) ==
    << <<"type", PyStr("ZipfAnalysis")>>,
       <<"path", PyStr(path)>>,
       <<"zipf_coefficient", ToObject(data.zipf_coefficient)>>,
       <<"correlation_coefficient", ToObject(data.correlation_coefficient)>>,
       <<"deviation_score", ToObject(data.deviation_score)>>,
       <<"risk_level", ToObject(data.risk_level)>>,
       <<"total_items", ToObject(data.total_items)>>,
       <<"analysis_summary", ToObject(data.analysis_summary)>> >>

Items_NormalAnalysis(path, data) ==
    << <<"type", PyStr("NormalAnalysis")>>,
       <<"path", PyStr(path)>>,
       <<"mean", ToObject(data.mean)>>,
       <<"std_dev", ToObject(data.std_dev)>>,
       <<"skewness", ToObject(data.skewness)>>,
       <<"kurtosis", ToObject(data.kurtosis)>>,
       <<"normality_test_p", ToObject(data.normality_test_p)>>,
       <<"risk_level", ToObject(data.risk_level)>>,
       <<"total_numbers", ToObject(data.total_numbers)>>,
       <<"analysis_summary", ToObject(data.analysis_summary)>> >>

Items_PoissonAnalysis(path, data) ==
    << <<"type", PyStr("PoissonAnalysis")>>,
       <<"path", PyStr(path)>>,
       <<"lambda", ToObject(data.lambda)>>,
       <<"variance_ratio", ToObject(data.variance_ratio)>>,
       <<"poisson_test_p", ToObject(data.poisson_test_p)>>,
       <<"risk_level", ToObject(data.risk_level)>>,
       <<"total_events", ToObject(data.total_events)>>,
       <<"analysis_summary", ToObject(data.analysis_summary)>> >>

Items_IntegrationAnalysis(path, data) ==
    << <<"type", PyStr("IntegrationAnalysis")>>,
       <<"path", PyStr(path)>>,
       <<"laws_analyzed", ToObject(data.laws_analyzed)>>,
       <<"overall_risk", ToObject(data.overall_risk)>>,
       <<"conflicting_results", ToObject(data.conflicting_results)>>,
       <<"recommendations", ToObject(data.recommendations)>>,
       <<"analysis_summary", ToObject(data.analysis_summary)>> >>

\* the arm with the set_item of "issues_found" left out
Items_ValidationResult_NoIssues(path, data) ==
    << <<"type", PyStr("ValidationResult")>>,
       <<"path", PyStr(path)>>,
       <<"validation_passed", ToObject(data.validation_passed)>>,
       <<"data_quality_score", ToObject(data.data_quality_score)>>,
       <<"analysis_summary", ToObject(data.analysis_summary)>> >>

Items_ValidationResult(path, data) ==
    << <<"type", PyStr("ValidationResult")>>,
       <<"path", PyStr(path)>>,
       <<"validation_passed", ToObject(data.validation_passed)>>,
       <<"issues_found", ToObject(data.issues_found)>>,
       <<"data_quality_score", ToObject(data.data_quality_score)>>,
       <<"analysis_summary", ToObject(data.analysis_summary)>> >>

Items_DiagnosticResult(path, data) ==
    << <<"type", PyStr("DiagnosticResult")>>,
       <<"path", PyStr(path)>>,
       <<"diagnostic_type", ToObject(data.diagnostic_type)>>,
       <<"findings", ToObject(data.findings)>>,
       <<"confidence_level", ToObject(data.confidence_level)>>,
       <<"analysis_summary", ToObject(data.analysis_summary)>> >>

Items_GeneratedData(path, data) ==
    << <<"type", PyStr("GeneratedData")>>,
       <<"path", PyStr(path)>>,
       <<"data_type", ToObject(data.data_type)>>,
       <<"count", ToObject(data.count)>>,
       <<"parameters", ToObject(data.parameters)>>,
       <<"sample_data", ToObject(data.sample_data)>> >>

\* match result { ... }: exhaustive, no default arm
lawkit_result_to_python(result) ==
    LET path == result.path
        data == result.data
        kvs == CASE result.tag = "BenfordAnalysis" ->
                      Items_BenfordAnalysis(path, data)
                 [] result.tag = "ParetoAnalysis" ->
                      Items_ParetoAnalysis(path, data)
                 [] result.tag = "ZipfAnalysis" -> Items_ZipfAnalysis(path, data)
                 [] result.tag = "NormalAnalysis" ->
                      Items_NormalAnalysis(path, data)
                 [] result.tag = "PoissonAnalysis" ->
                      Items_PoissonAnalysis(path, data)
                 [] result.tag = "IntegrationAnalysis" ->
                      Items_IntegrationAnalysis(path, data)
                 [] result.tag = "ValidationResult" ->
                      Items_ValidationResult(path, data)
                 [] result.tag = "DiagnosticResult" ->
                      Items_DiagnosticResult(path, data)
                 [] result.tag = "GeneratedData" ->
                      Items_GeneratedData(path, data)
    IN  PyDict(SetItems(<<>>, kvs))

(* What the engine may return: one result of each variant *)

LawkitResult(tag, path, data) == [tag |-> tag, path |-> path, data |-> data]

Half == Dy(1, -1)
Five == Dy(5, 0)

SampleResults ==
    { LawkitResult("BenfordAnalysis", "data",
        [ observed_distribution |-> RVec(<<RF64(Half)>>),
          expected_distribution |-> RVec(<<RF64(Half)>>),
          chi_square |-> RF64(Half), p_value |-> RF64(Half), mad |-> RF64(Half),
          risk_level |-> RString("Low"), total_numbers |-> RUsize(Five),
          analysis_summary |-> RString("summary") ]),
      LawkitResult("ParetoAnalysis", "data",
        [ top_20_percent_contribution |-> RF64(Half),
          pareto_ratio |-> RF64(Half), concentration_index |-> RF64(Half),
          risk_level |-> RString("Low"), total_items |-> RUsize(Five),
          analysis_summary |-> RString("summary") ]),
      LawkitResult("ZipfAnalysis", "data",
        [ zipf_coefficient |-> RF64(Half),
          correlation_coefficient |-> RF64(Half),
          deviation_score |-> RF64(Half),
          risk_level |-> RString("Low"), total_items |-> RUsize(Five),
          analysis_summary |-> RString("summary") ]),
      LawkitResult("NormalAnalysis", "data",
        [ mean |-> RF64(Half), std_dev |-> RF64(Half), skewness |-> RF64(Half),
          kurtosis |-> RF64(Half), normality_test_p |-> RF64(Half),
          risk_level |-> RString("Low"), total_numbers |-> RUsize(Five),
          analysis_summary |-> RString("summary") ]),
      LawkitResult("PoissonAnalysis", "data",
        [ lambda |-> RF64(Half), variance_ratio |-> RF64(Half),
          poisson_test_p |-> RF64(Half),
          risk_level |-> RString("Low"), total_events |-> RUsize(Five),
          analysis_summary |-> RString("summary") ]),
      LawkitResult("IntegrationAnalysis", "data",
        [ laws_analyzed |-> RVec(<<RString("benf"), RString("pareto")>>),
          overall_risk |-> RString("Low"),
          conflicting_results |-> RVec(<<>>),
          recommendations |-> RVec(<<RString("collect more data")>>),
          analysis_summary |-> RString("summary") ]),
      LawkitResult("ValidationResult", "data",
        [ validation_passed |-> RBool(TRUE),
          issues_found |-> RVec(<<RString("issue")>>),
          data_quality_score |-> RF64(Half),
          analysis_summary |-> RString("summary") ]),
      LawkitResult("DiagnosticResult", "data",
        [ diagnostic_type |-> RString("general"),
          findings |-> RVec(<<RString("finding")>>),
          confidence_level |-> RF64(Half),
          analysis_summary |-> RString("summary") ]),
      LawkitResult("GeneratedData", "generated",
        [ data_type |-> RString("benf"), count |-> RUsize(Five),
          parameters |-> RMap(<< <<"count", RUsize(Five)>> >>),
          sample_data |-> RVec(<<RF64(Half)>>) ]) }

---------------------------------------------------------------------------
(* law_py: one call *)

UnknownKeys == { "future_option" }

\* the values a caller passes under a key: one the arm accepts, one of
\* another type, and for the float keys an int, which __float__ coerces; for
\* the two validated keys also a string that does not validate
KwargChoices(key) ==
    CASE key = "ignore_keys_regex" ->
           { PyStr("^id$"), PyStr("(unterminated"), PyInt(Dy(1, 0)) }
      [] key = "output_format" ->
           { PyStr("json"), PyStr("not-a-format"), PyInt(Dy(1, 0)) }
      [] key \in { "path_filter", "risk_threshold" } ->
           { PyStr("x"), PyInt(Dy(1, 0)) }
      [] key \in { "show_details", "show_recommendations",
                   "use_memory_optimization", "enable_outlier_detection",
                   "enable_japanese_numerals", "enable_international_numerals",
                   "enable_parallel_processing" } ->
           { PyBool(TRUE), PyInt(Dy(1, 0)) }
      [] key \in { "confidence_level", "analysis_threshold",
                   "significance_level" } ->
           { PyFinite(Dy(1, -1)), PyInt(Dy(1, 0)), PyStr("x") }
      [] key \in { "batch_size", "min_sample_size", "memory_limit_mb" } ->
           { PyInt(Dy(1, 0)), PyInt(Dy(-1, 0)) }
      [] OTHER -> { PyInt(Dy(1, 0)) }

AllEntries ==
    { e \in (RecognizedKeys \cup UnknownKeys)
              \X { PyStr("^id$"), PyStr("(unterminated"), PyStr("json"),
                   PyStr("not-a-format"), PyStr("x"), PyBool(TRUE),
                   PyInt(Dy(1, 0)), PyInt(Dy(-1, 0)), PyFinite(Dy(1, -1)) }
        : e[2] \in KwargChoices(e[1]) }

\* The inputs of a call are bounded in two ways.  "options": up to MaxKwargs
\* keyword arguments of every key, an engine that fails or returns at most one
\* result.  "results": at most one keyword argument, an engine that fails or
\* returns up to MaxResults results of any variant.
KwargLimit(s) == IF s = "options" THEN MaxKwargs ELSE 1

KwargPool(s) ==
    IF s = "options" THEN AllEntries
    ELSE { <<"show_details", PyBool(TRUE)>>, <<"risk_threshold", PyStr("x")>>,
           <<"ignore_keys_regex", PyStr("(unterminated")>> }

Subcommands(s) == IF s = "options" THEN { "benf" } ELSE { "benf", "unknown-law" }

EngineResults(s) ==
    IF s = "options"
    THEN { <<>> } \cup { <<r>> : r \in { x \in SampleResults :
                                           x.tag = "BenfordAnalysis" } }
    ELSE UNION { [1..n -> SampleResults] : n \in 0..MaxResults }

\* [123, 456]
DataOk == PyList(<<PyInt(Dy(123, 0)), PyInt(Dy(57, 3))>>)

\* {1: "s"}: a dict whose key is no string
DataBad == PyDict(<< <<PyInt(Dy(1, 0)), PyStr("s")>> >>)

DataSamples == { DataOk, DataBad }

ConvIdle ==
    /\ cpc = "idle"
    /\ preserve_order = FALSE
    /\ obj = PyNone
    /\ value = Pending
    /\ back = PyNone
    /\ value2 = Pending

LawInit(s) ==
    /\ scn = s
    /\ pc = "idle"
    /\ subcommand = ""
    /\ data_or_config = PyNone
    /\ kwargs = <<>>
    /\ data_value = Pending
    /\ options = DefaultOptions
    /\ lawkit_options = DefaultSpecificOptions
    /\ has_lawkit_options = FALSE
    /\ kw_i = 0
    /\ engine_calls = 0
    /\ engine_arg = <<>>
    /\ results = <<>>
    /\ res_i = 0
    /\ py_list = <<>>
    /\ ret = Pending
    /\ ConvIdle

\* the caller gives one more keyword argument, under a key not yet used
CallerAddsKwarg ==
    /\ pc = "idle"
    /\ Len(kwargs) < KwargLimit(scn)
    /\ \E e \in KwargPool(scn) :
          /\ e[1] \notin KeysOf(kwargs)
          /\ kwargs' = Append(kwargs, e)
    /\ UNCHANGED <<scn, pc, subcommand, data_or_config, data_value, options,
                   lawkit_options, has_lawkit_options, kw_i, engine_calls,
                   engine_arg, results, res_i, py_list, ret, conv_vars>>

\* law(subcommand, data_or_config, **kwargs) is entered: the data is
\* converted, `?` returning its error, and the options start from the defaults
Call ==
    /\ pc = "idle"
    /\ \E sc \in Subcommands(scn), d \in DataSamples :
          /\ subcommand' = sc
          /\ data_or_config' = d
          /\ data_value' = python_to_value(d, preserve_order)
    /\ options' = DefaultOptions
    /\ lawkit_options' = DefaultSpecificOptions
    /\ has_lawkit_options' = FALSE
    /\ IF data_value'.ok
       THEN pc' = "kwargs" /\ ret' = ret
       ELSE pc' = "done" /\ ret' = data_value'
    /\ UNCHANGED <<scn, kwargs, kw_i, engine_calls, engine_arg, results,
                   res_i, py_list, conv_vars>>

\* one iteration of `for (key, value) in kwargs.iter()`; the keys of **kwargs
\* are Python strs, so key.extract::<String>() succeeds
KwargStep ==
    /\ pc = "kwargs"
    /\ kw_i < Len(kwargs)
    /\ LET e == kwargs[kw_i + 1]
           st == MatchKey(BuildState(options, lawkit_options,
                                     has_lawkit_options, None), e[1], e[2])
       IN  /\ options' = st.options
           /\ lawkit_options' = st.lawkit_options
           /\ has_lawkit_options' = st.has_lawkit_options
           /\ IF st.err # None
              THEN pc' = "done" /\ ret' = st.err[1] /\ kw_i' = kw_i
              ELSE pc' = pc /\ ret' = ret /\ kw_i' = kw_i + 1
    /\ UNCHANGED <<scn, subcommand, data_or_config, kwargs, data_value,
                   engine_calls, engine_arg, results, res_i, py_list,
                   conv_vars>>

\* after the loop: if has_lawkit_options { options.lawkit_options = Some(..) }
AttachOptions ==
    /\ pc = "kwargs"
    /\ kw_i = Len(kwargs)
    /\ options' = Attach(options, lawkit_options, has_lawkit_options)
    /\ pc' = "engine"
    /\ UNCHANGED <<scn, subcommand, data_or_config, kwargs, data_value,
                   lawkit_options, has_lawkit_options, kw_i, engine_calls,
                   engine_arg, results, res_i, py_list, ret, conv_vars>>

\* the append replaced by an insert at the front
PushResult_Front(list, item) == <<item>> \o list

\* py_list.append(item)
PushResult(list, item) == Append(list, item)

\* law(subcommand, &data_value, Some(&options)): the engine either fails, and
\* map_err(..)? returns the wrapped error, or returns its results
EngineCall ==
    /\ pc = "engine"
    /\ engine_calls' = engine_calls + 1
    /\ engine_arg' = <<subcommand, data_value.val, options>>
    /\ \/ /\ ret' = Err("RuntimeError", "Law analysis error")
          /\ pc' = "done"
          /\ UNCHANGED results
       \/ /\ \E rs \in EngineResults(scn) : results' = rs
          /\ pc' = "marshal"
          /\ UNCHANGED ret
    /\ UNCHANGED <<scn, subcommand, data_or_config, kwargs, data_value,
                   options, lawkit_options, has_lawkit_options, kw_i, res_i,
                   py_list, conv_vars>>

\* one iteration of `for result in results`: the record is appended, or a
\* Python error of set_item / append is returned with `?`
MarshalStep ==
    /\ pc = "marshal"
    /\ res_i < Len(results)
    /\ \/ /\ py_list' = PushResult(py_list,
                                   lawkit_result_to_python(results[res_i + 1]))
          /\ res_i' = res_i + 1
          /\ UNCHANGED <<pc, ret>>
       \/ /\ ret' = Err("MemoryError", "set_item failed")
          /\ pc' = "done"
          /\ UNCHANGED <<py_list, res_i>>
    /\ UNCHANGED <<scn, subcommand, data_or_config, kwargs, data_value,
                   options, lawkit_options, has_lawkit_options, kw_i,
                   engine_calls, engine_arg, results, conv_vars>>

\* Ok(py_list.to_object(py))
Return ==
    /\ pc = "marshal"
    /\ res_i = Len(results)
    /\ ret' = Ok(py_list)
    /\ pc' = "done"
    /\ UNCHANGED <<scn, subcommand, data_or_config, kwargs, data_value,
                   options, lawkit_options, has_lawkit_options, kw_i,
                   engine_calls, engine_arg, results, res_i, py_list,
                   conv_vars>>

Next ==
    \/ CallerAddsKwarg
    \/ Call
    \/ KwargStep
    \/ AttachOptions
    \/ EngineCall
    \/ MarshalStep
    \/ Return

\* calls with many keyword arguments
SpecOpts == LawInit("options") /\ [][Next]_vars

\* calls with many results
SpecLaw == LawInit("results") /\ [][Next]_vars

---------------------------------------------------------------------------
(* Claims about the value converter (checked under SpecConv) *)

\* C1  Round trip: a value v that python_to_value produced, converted back
\* with value_to_python and converted again with python_to_value, gives a
\* value equal to v (and the second conversion does not fail).
C1_RoundTrip ==
    cpc = "done" => value2.ok /\ ValueEq(value2.val, value.val)

\* C1 witness: a list holding an integral float and a NaN went round: the
\* float stayed a Float, the NaN collapsed to Null and stayed Null
C1_Witness ==
    /\ cpc = "done"
    /\ obj = PyList(<<PyFinite(Dy(1, 0)), PyNaN>>)
    /\ value.val = Array(<<Number("Float", Dy(1, 0)), Null>>)
    /\ back = PyList(<<PyFinite(Dy(1, 0)), PyNone>>)
    /\ value2.val = value.val

\* where a host value holds a bool, the canonical value holds Bool of the
\* same truth value; an int in the i64 range is an integer Number
RECURSIVE FirstMatchKept(_, _)
FirstMatchKept(o, v) ==
    CASE o.k = "bool" -> v = Bool(o.b)
      [] o.k = "int" /\ FitsI64(o.n) ->
           v.k = "Number" /\ v.r \in {"PosInt", "NegInt"} /\ v.n = o.n
      [] o.k = "list" ->
           /\ v.k = "Array"
           /\ Len(v.a) = Len(o.items)
           /\ \A i \in 1..Len(o.items) : FirstMatchKept(o.items[i], v.a[i])
      [] o.k = "dict" ->
           /\ v.k = "Object"
           /\ \A i \in 1..Len(o.entries) : \E j \in 1..Len(v.o) :
                 /\ v.o[j][1] = o.entries[i][1].s
                 /\ FirstMatchKept(o.entries[i][2], v.o[j][2])
      [] OTHER -> TRUE

\* C6  Boolean before numeric: a host bool, at top level or nested in lists
\* and dicts, converts to Bool(b), never to a Number.
C6_BoolBeforeNumeric ==
    (cpc # "start" /\ value.ok) => FirstMatchKept(obj, value.val)

\* C6 witness: True nested in a dict inside a list was converted
C6_Witness ==
    /\ cpc = "converted"
    /\ obj = PyList(<<PyDict(<<<<PyStr("a"), PyBool(TRUE)>>>>)>>)
    /\ value = Ok(Array(<<Object(<<<<"a", Bool(TRUE)>>>>)>>))

---------------------------------------------------------------------------
(* Claims about the options (checked under SpecOpts) *)

\* the type each recognized key declares
DeclaredType(key) ==
    CASE key \in { "ignore_keys_regex", "path_filter", "output_format",
                   "risk_threshold" } -> "string"
      [] key \in { "show_details", "show_recommendations",
                   "use_memory_optimization", "enable_outlier_detection",
                   "enable_japanese_numerals", "enable_international_numerals",
                   "enable_parallel_processing" } -> "bool"
      [] key \in { "confidence_level", "analysis_threshold",
                   "significance_level" } -> "float"
      [] key \in { "batch_size", "min_sample_size", "memory_limit_mb" } ->
           "non-negative int"

\* the value of a recognized key can be extracted as the declared type
Extractable(e) ==
    CASE DeclaredType(e[1]) = "string" -> ExtractString(e[2]).ok
      [] DeclaredType(e[1]) = "bool" -> ExtractBool(e[2]).ok
      [] DeclaredType(e[1]) = "float" -> ExtractF64(e[2]).ok
      [] DeclaredType(e[1]) = "non-negative int" -> ExtractUsize(e[2]).ok

\* a string that does not compile as a regex, or is not a known format
InvalidSyntax(e) ==
    \/ /\ e[1] = "ignore_keys_regex"
       /\ ExtractString(e[2]).ok
       /\ ~RegexNew(e[2].s).ok
    \/ /\ e[1] = "output_format"
       /\ ExtractString(e[2]).ok
       /\ ~ParseFormat(e[2].s).ok

Mismatched(e) == e[1] \in RecognizedKeys /\ ~Extractable(e)

\* the field of the options in which a recognized key is stored
FieldOf(key) ==
    IF key \in GenericKeys THEN options[key] ELSE lawkit_options[key]

Remove(seq, i) == SubSeq(seq, 1, i - 1) \o SubSeq(seq, i + 1, Len(seq))

Perms(seq) ==
    { [i \in 1..Len(seq) |-> seq[f[i]]] :
        f \in { g \in [1..Len(seq) -> 1..Len(seq)] :
                  \A i, j \in 1..Len(seq) : i # j => g[i] # g[j] } }

\* the kwargs have been consumed: the loop returned an error, or the options
\* were merged
BuildFinished ==
    \/ pc = "engine"
    \/ pc = "done" /\ data_value.ok /\ engine_calls = 0

\* what the build gave: the error of the loop, or the merged options
BuiltOutcome == IF pc = "done" THEN ret ELSE Ok(options)

\* C3  Unknown-key tolerance: a key that is not recognized changes nothing:
\* the outcome of the build is the one of the mapping without that key, and
\* when every recognized key present has a valid value no error is raised.
C3_UnknownKeyTolerance ==
    BuildFinished =>
      /\ \A i \in 1..Len(kwargs) :
           kwargs[i][1] \notin RecognizedKeys =>
             BuiltOutcome = BuildOptions(Remove(kwargs, i))
      /\ (\A i \in 1..Len(kwargs) :
            kwargs[i][1] \in RecognizedKeys =>
              Extractable(kwargs[i]) /\ ~InvalidSyntax(kwargs[i]))
         => BuiltOutcome.ok

\* C3 witness: one unrecognized and one recognized key were consumed
C3_Witness ==
    /\ pc = "engine"
    /\ kwargs = << <<"future_option", PyInt(Dy(1, 0))>>,
                   <<"path_filter", PyStr("x")>> >>
    /\ options = [DefaultOptions EXCEPT !.path_filter = Some("x")]

SomeInvalidSyntax == \E i \in 1..Len(kwargs) : InvalidSyntax(kwargs[i])

\* C4 as stated: with a malformed regex or an unknown format among the
\* kwargs, the call fails with ConfigError and the engine is not invoked.
C4_Original ==
    (pc = "done" /\ SomeInvalidSyntax) =>
      /\ ~ret.ok
      /\ ret.kind = "ValueError"
      /\ engine_calls = 0

\* C4  Eager validation, amended: with a malformed regex or an unknown format
\* among the kwargs, whatever the other keys, the call fails and the engine is
\* never invoked; the error is the ConfigError (ValueError) unless the data
\* argument failed to convert, which is found first and whose error is returned.
C4_EagerValidation ==
    SomeInvalidSyntax =>
      /\ engine_calls = 0
      /\ pc \notin { "engine", "marshal" }
      /\ pc = "done" =>
           /\ ~ret.ok
           /\ data_value.ok => ret.kind = "ValueError"
           /\ ~data_value.ok => ret = data_value

\* C4 witness: a malformed regex after a valid key, the data converted
C4_Witness ==
    /\ pc = "done"
    /\ data_value.ok
    /\ kwargs = << <<"show_details", PyBool(TRUE)>>,
                   <<"ignore_keys_regex", PyStr("(unterminated")>> >>
    /\ ret = Err("ValueError", "Invalid regex: unclosed group")
    /\ engine_calls = 0

\* C5 as stated: a recognized key whose value cannot be coerced to the
\* declared type makes the build fail with ConfigError.
C5_Original ==
    (BuildFinished /\ \E i \in 1..Len(kwargs) : Mismatched(kwargs[i])) =>
      ~BuiltOutcome.ok /\ BuiltOutcome.kind = "ValueError"

\* C5  amended: the build fails exactly when some ignore_keys_regex string
\* does not compile or some output_format string is not a known format, and
\* then with ConfigError (ValueError); a recognized key whose value cannot be
\* coerced to its declared type raises nothing.
C5_OnlySyntaxFails ==
    BuildFinished =>
      /\ ~BuiltOutcome.ok <=> SomeInvalidSyntax
      /\ ~BuiltOutcome.ok => BuiltOutcome.kind = "ValueError"

\* C5 witness: batch_size = -1 was consumed and the build succeeded
C5_Witness ==
    /\ pc = "engine"
    /\ kwargs = << <<"batch_size", PyInt(Dy(-1, 0))>> >>
    /\ options = DefaultOptions

\* C8  Lenient type mismatch: a recognized key whose value cannot be
\* extracted as the declared type raises nothing and sets nothing: the outcome
\* is the one of the mapping without that key, and its field stays unset.
C8_LenientMismatch ==
    BuildFinished =>
      \A i \in 1..Len(kwargs) :
        Mismatched(kwargs[i]) =>
          /\ BuiltOutcome = BuildOptions(Remove(kwargs, i))
          /\ BuiltOutcome.ok => FieldOf(kwargs[i][1]) = None

\* C8 witness: a non-string regex and a valid flag were consumed
C8_Witness ==
    /\ pc = "engine"
    /\ kwargs = << <<"ignore_keys_regex", PyInt(Dy(1, 0))>>,
                   <<"show_details", PyBool(TRUE)>> >>
    /\ options = [DefaultOptions EXCEPT !.show_details = Some(TRUE)]

SomeSpecificKey == \E i \in 1..Len(kwargs) : kwargs[i][1] \in SpecificKeys

SomeSpecificKeyAccepted ==
    \E i \in 1..Len(kwargs) :
      kwargs[i][1] \in SpecificKeys /\ Extractable(kwargs[i])

\* C9 as stated: the specific options are attached exactly when a
\* domain-specific key was supplied.
C9_Original ==
    (BuildFinished /\ BuiltOutcome.ok) =>
      (options.lawkit_options # None <=> SomeSpecificKey)

\* C9  amended: the flag is set, and the specific options are attached to the
\* options the engine is called with, exactly when a domain-specific key was
\* supplied with a value that can be extracted as its declared type; generic
\* and unknown keys alone never attach them.
C9_Attachment ==
    /\ (BuildFinished /\ BuiltOutcome.ok) =>
         /\ has_lawkit_options <=> SomeSpecificKeyAccepted
         /\ options.lawkit_options # None <=> SomeSpecificKeyAccepted
         /\ options.lawkit_options # None =>
              options.lawkit_options = Some(lawkit_options)
    /\ engine_calls = 1 =>
         /\ engine_arg[3] = options
         /\ engine_arg[3].lawkit_options # None <=> SomeSpecificKeyAccepted

\* C9 witness: the engine was called with the specific options attached,
\* after a generic key and a domain-specific key
C9_Witness ==
    /\ pc = "marshal"
    /\ kwargs = << <<"path_filter", PyStr("x")>>,
                   <<"min_sample_size", PyInt(Dy(1, 0))>> >>
    /\ engine_arg[3].lawkit_options =
         Some([DefaultSpecificOptions EXCEPT !.min_sample_size = Some(Dy(1, 0))])

\* C10 as stated: the outcome of the build, the error included, is the same
\* for every iteration order of the mapping.
C10_Original ==
    BuildFinished => \A p \in Perms(kwargs) : BuildOptions(p) = BuiltOutcome

\* the error a malformed entry raises
ErrorOf(e) ==
    IF e[1] = "ignore_keys_regex"
    THEN Err("ValueError", "Invalid regex: " \o RegexNew(e[2].s).msg)
    ELSE Err("ValueError", "Invalid format: " \o ParseFormat(e[2].s).msg)

FirstInvalid(kw) ==
    kw[CHOOSE i \in 1..Len(kw) :
         InvalidSyntax(kw[i]) /\ \A j \in 1..(i - 1) : ~InvalidSyntax(kw[j])]

\* C10  amended: for every iteration order the build succeeds or fails
\* alike; when it succeeds the options are the same; when it fails the error
\* is a ConfigError (ValueError) whose message is the one of the first
\* malformed entry in iteration order, so with both a malformed regex and an
\* unknown format the message depends on the order.
C10_OrderIndependence ==
    BuildFinished =>
      \A p \in Perms(kwargs) :
        LET r == BuildOptions(p)
        IN  /\ r.ok = BuiltOutcome.ok
            /\ r.ok => r = BuiltOutcome
            /\ ~r.ok => /\ r = ErrorOf(FirstInvalid(p))
                        /\ BuiltOutcome = ErrorOf(FirstInvalid(kwargs))

\* C10 witness: an unknown format iterated before a malformed regex
C10_Witness ==
    /\ pc = "done"
    /\ kwargs = << <<"output_format", PyStr("not-a-format")>>,
                   <<"ignore_keys_regex", PyStr("(unterminated")>> >>
    /\ ret = Err("ValueError", "Invalid format: Invalid format")

---------------------------------------------------------------------------
(* Claims about the results (checked under SpecLaw) *)

\* the fields the data model declares for each variant
DeclaredFields(tag) ==
    CASE tag = "BenfordAnalysis" ->
           { "observed_distribution", "expected_distribution", "chi_square",
             "p_value", "mad", "risk_level", "total_numbers",
             "analysis_summary" }
      [] tag = "ParetoAnalysis" ->
           { "top_20_percent_contribution", "pareto_ratio",
             "concentration_index", "risk_level", "total_items",
             "analysis_summary" }
      [] tag = "ZipfAnalysis" ->
           { "zipf_coefficient", "correlation_coefficient", "deviation_score",
             "risk_level", "total_items", "analysis_summary" }
      [] tag = "NormalAnalysis" ->
           { "mean", "std_dev", "skewness", "kurtosis", "normality_test_p",
             "risk_level", "total_numbers", "analysis_summary" }
      [] tag = "PoissonAnalysis" ->
           { "lambda", "variance_ratio", "poisson_test_p", "risk_level",
             "total_events", "analysis_summary" }
      [] tag = "IntegrationAnalysis" ->
           { "laws_analyzed", "overall_risk", "conflicting_results",
             "recommendations", "analysis_summary" }
      [] tag = "ValidationResult" ->
           { "validation_passed", "issues_found", "data_quality_score",
             "analysis_summary" }
      [] tag = "DiagnosticResult" ->
           { "diagnostic_type", "findings", "confidence_level",
             "analysis_summary" }
      [] tag = "GeneratedData" ->
           { "data_type", "count", "parameters", "sample_data" }

VariantTags ==
    { "BenfordAnalysis", "ParetoAnalysis", "ZipfAnalysis", "NormalAnalysis",
      "PoissonAnalysis", "IntegrationAnalysis", "ValidationResult",
      "DiagnosticResult", "GeneratedData" }

\* the record has the tag under "type" and exactly the declared keys
WellFormedRecord(rec, tag) ==
    /\ rec.k = "dict"
    /\ { rec.entries[j][1].s : j \in 1..Len(rec.entries) }
         = { "type", "path" } \cup DeclaredFields(tag)
    /\ Len(rec.entries) = Cardinality(DeclaredFields(tag)) + 2
    /\ \E j \in 1..Len(rec.entries) :
         rec.entries[j] = <<PyStr("type"), PyStr(tag)>>

C7_AllOrNothing ==
    /\ engine_calls <= 1
    /\ pc # "done" => ret = Pending
    /\ pc = "done" =>
         IF ret.ok
         THEN /\ engine_calls = 1
              /\ Len(ret.val) = Len(results)
              /\ \A i \in 1..Len(results) :
                   ret.val[i] = lawkit_result_to_python(results[i])
         ELSE DOMAIN ret = { "ok", "kind", "msg" }

\* C7 witness: two results, not in sorted order, were returned in that order
C7_Witness ==
    /\ pc = "done"
    /\ ret.ok
    /\ Len(results) = 2
    /\ results[1].tag = "ZipfAnalysis"
    /\ results[2].tag = "BenfordAnalysis"
    /\ ret.val[1].entries[1] = <<PyStr("type"), PyStr("ZipfAnalysis")>>
    /\ ret.val[2].entries[1] = <<PyStr("type"), PyStr("BenfordAnalysis")>>

===========================================================================
